---- MODULE Spec2Model ----
(***************************************************************************)
(* 0xAcademy backend: the SIWE nonce handshake of routes/auth.routes and   *)
(* the response cache / invalidation middleware around routes/courses.     *)
(*                                                                         *)
(* Every await of a handler on the relational store or on Redis is one     *)
(* step of that request, so concurrent requests interleave exactly at the  *)
(* store calls.  Times are milliseconds (Date.now()).                      *)
(***************************************************************************)
EXTENDS Integers, Sequences, FiniteSets, Bags, TLC

\* ------------------------------------------------------------------ bounds
MaxReqs   == 2      \* /auth/verify requests in one behaviour
MaxNonces == 2      \* /auth/nonce requests in one behaviour
MaxTicks  == 1      \* clock advances in one behaviour
MaxGets   == 2      \* GET requests to the courses router in one behaviour
MaxWrites == 1      \* write requests to the courses router in one behaviour
MaxHits   == 3      \* requests through the rate limiter in one behaviour
RateMax   == 2      \* option `max` of the rate limiter under test

TickMs == 15 * 60 * 1000         \* the modelled clock advances by a quarter of an hour

AddrIds == {"a1", "a2"}
\* A wallet address as sent on the wire: the account and the letter case of
\* its hex digits (EIP-55 mixed case, or all lower case).
WireAddrs == [id : AddrIds, cs : {"lower", "mixed"}]
\* A SIWE message carries the EIP-55 form.
Eip55Addrs == {a \in WireAddrs : a.cs = "mixed"}

Null == [null |-> TRUE]

VARIABLES
  now,           \* Date.now()
  nonces,        \* table nonces: rows [id, address, nonce, expires_at, created_at]
  nonceSeq,      \* /auth/nonce requests so far (the source of fresh uuids
                 \* and fresh random nonces)
  users,         \* table users: rows [id, wallet_address] (the unique key and
                 \* the id; profile columns and timestamps are not represented)
  userSeq,       \* user rows created so far (fresh uuid)
  nonceResp,     \* response of the latest POST /auth/nonce
  vreq,          \* POST /auth/verify requests, in flight and answered: a bag of
                 \* records (locals, position, response, history)
  redis,         \* Redis keyspace: key -> [value, expires_at, after]
  courseDb,      \* revision of the courses / lessons / enrollments tables
  greq,          \* GET requests to the courses router in flight: a bag
  gseq,          \* GET requests that have arrived so far
  gresp,         \* the last response sent to a GET request
  wreq,          \* write requests to the courses router: a set of records
  wseq,          \* write requests that have arrived so far
  redisMode,     \* the Redis client: "ok", "absent" (getRedis() is null) or
                 \* "faulty" (a command may reject)
  rreq,          \* requests through the rate limiter: a bag of records
  calls,         \* direct calls of CacheService methods so far
  ret,           \* the latest such call and what it returned
  written,       \* history: key -> value and expiry of the latest set that
                 \* no del or delPattern has undone
  kreq,          \* a pair of GET requests given to defaultKeyGenerator
  kkeys,         \* the keys derived for the pair (<<>> before)
  mreq,          \* the latest request carrying a bearer token (GET /auth/me
                 \* or a route behind authenticate): locals, position, response
  mseq,          \* such requests so far
  lessons,       \* table lessons: the ids of the lessons of the course
  is_published,  \* column courses.is_published of the course
  lessonSeq,     \* lessons created so far (fresh uuid)
  creq,          \* publish and lesson requests of the course's owner: a set
                 \* of records (locals, position, response, history)
  cseq,          \* such requests so far
  migrations,    \* table _migrations: the names recorded
  mrun,          \* the migration runner: locals and position of the run
  mbroken        \* history: names recorded although a statement had failed

authVars == <<now, nonces, nonceSeq, users, userSeq, nonceResp, vreq>>
cacheVars == <<redis, courseDb, greq, gseq, gresp, wreq, wseq>>
rateVars == <<rreq>>
kvVars == <<calls, ret, written>>
keyVars == <<kreq, kkeys>>
meVars == <<mreq, mseq>>
courseVars == <<lessons, is_published, lessonSeq, creq, cseq>>
migVars == <<migrations, mrun, mbroken>>
appVars == <<meVars, courseVars, migVars>>
svcVars == <<redisMode, rateVars, kvVars, keyVars, appVars>>

\* ------------------------------------------------------ helpers (pure code)

\* String.prototype.toLowerCase on a hex address
ToLowerCase(a) == [id |-> a.id, cs |-> "lower"]

\* new AppError(message, statusCode)
AppError(message, statusCode) ==
  [kind |-> "AppError", message |-> message, statusCode |-> statusCode]

\* zod's schema.parse throwing on a body that does not match the schema
ZodError == [kind |-> "ZodError", message |-> "zod", statusCode |-> 0]

\* error.middleware errorHandler: the response an error thrown by a handler
\* (forwarded by asyncHandler) ends as
errorHandler(err) ==
  IF err.kind = "ZodError"
    THEN [status |-> 400, message |-> "Validation failed", token |-> Null]
  ELSE IF err.kind = "AppError"
    THEN [status |-> err.statusCode, message |-> err.message, token |-> Null]
  ELSE [status |-> 500, message |-> err.message, token |-> Null]

\* the catch block of POST /auth/verify, applied to whatever the try threw
VerifyCatchRethrow(error) == error
VerifyCatch(error) == AppError("Authentication failed", 401)

\* PostgREST .single(): the row when exactly one row matches, else no data
Single(rows) == IF Cardinality(rows) = 1 THEN CHOOSE x \in rows : TRUE ELSE Null

\* expires_at of a nonce issued at time t: Date.now() + 10 * 60 * 1000
NonceTtlMs == 10 * 60 * 1000
ExpiresAt(t) == t + NonceTtlMs

\* siweMessage.verify({signature}): the recovered signer is the claimed account
SiweVerify(msg, signer) == signer = msg.address.id

\* the nonce lookup of /auth/verify:
\*   .eq('address', address).eq('nonce', nonce).gt('expires_at', now)
NonceQueryNoExpiry(tbl, address, nonce, t) ==
  {n \in tbl : n.address = address /\ n.nonce = nonce}
NonceQueryNoAddress(tbl, address, nonce, t) ==
  {n \in tbl : n.nonce = nonce /\ n.expires_at > t}
NonceQuery(tbl, address, nonce, t) ==
  {n \in tbl : n.address = address /\ n.nonce = nonce /\ n.expires_at > t}

\* users.wallet_address VARCHAR(42) UNIQUE NOT NULL
UniqueViolationOff(tbl, address) == FALSE
UniqueViolation(tbl, address) == \E u \in tbl : u.wallet_address = address

\* .from('nonces').delete().eq('id', id)
NonceDeleteNothing(tbl, id) == tbl
NonceDeleteByAddress(tbl, id) ==
  {n \in tbl : \A m \in tbl : m.id = id => n.address # m.address}
NonceDeleteById(tbl, id) == {n \in tbl : n.id # id}

\* clean_expired_nonces(): DELETE FROM nonces WHERE expires_at < NOW()
CleanExpiredNonces(tbl, t) == {n \in tbl : ~(n.expires_at < t)}

\* ------------------------------------------------------------ /auth/nonce

NoNonceResp == [status |-> 0, message |-> "", insertError |-> FALSE]

\* POST /auth/nonce with a body whose address fails the schema's regex
NonceRouteInvalid ==
  /\ nonceSeq < MaxNonces
  /\ nonceSeq' = nonceSeq + 1
  /\ nonceResp' = [status |-> errorHandler(ZodError).status,
                   message |-> errorHandler(ZodError).message,
                   insertError |-> FALSE]
  /\ UNCHANGED <<now, nonces, users, userSeq, vreq, cacheVars, svcVars>>

\* POST /auth/nonce: the insert into nonces returns an error
NonceRouteInsertFails ==
  /\ nonceSeq < MaxNonces
  /\ nonceSeq' = nonceSeq + 1
  /\ LET e == errorHandler(AppError("Failed to generate nonce", 500))
     IN nonceResp' = [status |-> e.status, message |-> e.message,
                      insertError |-> TRUE]
  /\ UNCHANGED <<now, nonces, users, userSeq, vreq, cacheVars, svcVars>>

\* POST /auth/nonce: generateNonce() is a fresh value; the row is inserted
\* under the lower-cased address and the nonce is returned
NonceRoute(a) ==
  /\ nonceSeq < MaxNonces
  /\ nonceSeq' = nonceSeq + 1
  /\ nonces' = nonces \cup
       {[id |-> nonceSeq', address |-> ToLowerCase(a), nonce |-> nonceSeq',
         expires_at |-> ExpiresAt(now), created_at |-> now]}
  /\ nonceResp' = [status |-> 200, message |-> "", insertError |-> FALSE]
  /\ UNCHANGED <<now, users, userSeq, vreq, cacheVars, svcVars>>

\* ----------------------------------------------------------- /auth/verify

\* What a caller can post: a body the schema rejects, a string that is no
\* SIWE message, or a SIWE message (claimed address, nonce) with the account
\* whose key produced the signature.
VerifyInputs ==
  {[body |-> "invalid", wellFormed |-> FALSE, msg |-> Null, signer |-> "none"],
   [body |-> "ok", wellFormed |-> FALSE, msg |-> Null, signer |-> "none"]}
  \cup
  {[body |-> "ok", wellFormed |-> TRUE, msg |-> [address |-> a, nonce |-> n],
    signer |-> s] : a \in Eip55Addrs, n \in 1..MaxNonces, s \in AddrIds}

\* a request that has just arrived.  History fields: thrown (the error the
\* handler threw, as logged), seen (what the store held for the message's
\* pair at the nonce select: a "live" row, only "expired" rows, or nothing,
\* "absent"), inTime (the row the select returned was less than ten minutes
\* old), insert (how the insert into users ended), replay (the message had
\* been accepted by a request that was answered before this one arrived)
NewReq ==
  [pc |-> "start", msg |-> Null, signer |-> "none", address |-> Null,
   nonceData |-> Null, user |-> Null, resp |-> Null,
   thrown |-> Null, seen |-> "none", inTime |-> FALSE, insert |-> "none",
   replay |-> FALSE]

Reqs == BagToSet(vreq)
Replace(q, q1) == (vreq (-) SetToBag({q})) (+) SetToBag({q1})

\* the request ends with the error `err` thrown outside the try block
FailOutside(q, err) ==
  [q EXCEPT !.pc = "done", !.thrown = err, !.resp = errorHandler(err)]

\* the request ends with the error `err` thrown inside the try block
FailInside(q, err) ==
  [q EXCEPT !.pc = "done", !.thrown = err,
            !.resp = errorHandler(VerifyCatch(err))]

\* the request ends with res.json({token, user})
Succeed(q, user) ==
  [q EXCEPT !.pc = "done", !.user = user,
            !.resp = [status |-> 200, message |-> "",
                      token |-> [id |-> user.id, address |-> user.wallet_address]]]

\* history: the rows the store held, when the request looked, for the pair
\* (lower-cased address, nonce) of its message
Candidates(tbl, msg) ==
  {n \in tbl : n.address.id = msg.address.id /\ n.address.cs = "lower"
                /\ n.nonce = msg.nonce}

\* the select on nonces and the check of its result
SelectNonce(q) ==
  LET nonceData == Single(NonceQuery(nonces, q.address, q.msg.nonce, now))
      rows == Candidates(nonces, q.msg)
      q0 == [q EXCEPT !.nonceData = nonceData,
                      !.seen = IF rows = {} THEN "absent"
                               ELSE IF \E n \in rows : n.expires_at > now
                                 THEN "live" ELSE "expired",
                      !.inTime = /\ nonceData # Null
                                 /\ now < nonceData.created_at + NonceTtlMs]
  IN IF nonceData = Null
       THEN FailInside(q0, AppError("Invalid or expired nonce", 401))
       ELSE [q0 EXCEPT !.pc = "deleteNonce"]

\* verifySchema.parse, new SiweMessage(message), siweMessage.verify, and (no
\* shared state is touched before it) the select on nonces
StartVerify(in) ==
  /\ BagCardinality(vreq) < MaxReqs
  /\ vreq' = vreq (+) SetToBag({
       IF in.body = "invalid" THEN FailOutside(NewReq, ZodError)
       ELSE IF ~in.wellFormed
         THEN FailInside(NewReq, [kind |-> "SiweError", statusCode |-> 0,
                                  message |-> "Malformed message"])
       ELSE IF ~SiweVerify(in.msg, in.signer)
         THEN FailInside(NewReq, AppError("Invalid signature", 401))
       ELSE SelectNonce([NewReq EXCEPT
              !.msg = in.msg, !.signer = in.signer,
              !.address = ToLowerCase(in.msg.address),
              !.replay = \E p \in Reqs : /\ p.pc = "done"
                                         /\ p.nonceData # Null
                                         /\ p.msg = in.msg])})
  /\ UNCHANGED <<now, nonces, nonceSeq, users, userSeq, nonceResp, cacheVars, svcVars>>

\* the delete of the nonce row by id
DeleteNonce(q) ==
  /\ q.pc = "deleteNonce"
  /\ nonces' = NonceDeleteById(nonces, q.nonceData.id)
  /\ vreq' = Replace(q, [q EXCEPT !.pc = "selectUser"])
  /\ UNCHANGED <<now, nonceSeq, users, userSeq, nonceResp, cacheVars, svcVars>>

\* the select on users by wallet_address
SelectUser(q) ==
  /\ q.pc = "selectUser"
  /\ LET user == Single({u \in users : u.wallet_address = q.address}) IN
     vreq' = Replace(q, [q EXCEPT !.user = user,
                                  !.pc = IF user = Null THEN "insertUser"
                                                        ELSE "updateLogin"])
  /\ UNCHANGED <<now, nonces, nonceSeq, users, userSeq, nonceResp, cacheVars, svcVars>>

\* if (!user): the insert into users; createError when the store fails or the
\* unique constraint on wallet_address rejects the row; then jwt.sign, res.json
InsertUser(q, storeFails) ==
  /\ q.pc = "insertUser"
  /\ LET unique  == UniqueViolation(users, q.address)
         newUser == [id |-> userSeq + 1, wallet_address |-> q.address] IN
     IF storeFails \/ unique
       THEN /\ vreq' = Replace(q,
                 FailInside([q EXCEPT !.insert = IF unique THEN "unique"
                                                           ELSE "fault"],
                            AppError("Failed to create user", 500)))
            /\ UNCHANGED <<users, userSeq>>
       ELSE /\ users' = users \cup {newUser}
            /\ userSeq' = userSeq + 1
            /\ vreq' = Replace(q, Succeed([q EXCEPT !.insert = "ok"], newUser))
  /\ UNCHANGED <<now, nonces, nonceSeq, nonceResp, cacheVars, svcVars>>

\* else: the update of last_login by id; then jwt.sign, res.json
UpdateLogin(q) ==
  /\ q.pc = "updateLogin"
  /\ vreq' = Replace(q, Succeed(q, q.user))
  /\ UNCHANGED <<now, nonces, nonceSeq, users, userSeq, nonceResp, cacheVars, svcVars>>

\* ------------------------------------------------------------ environment

\* time passes
\* expires_at of a key that has no TTL
NoExpiry == 0 - 1

Elapse(ms) ==
  /\ now < MaxTicks * TickMs
  /\ now' = now + ms
  /\ redis' = [k \in {x \in DOMAIN redis :
                          \/ redis[x].expires_at = NoExpiry
                          \/ redis[x].expires_at > now'} |-> redis[k]]
  /\ UNCHANGED <<nonces, nonceSeq, users, userSeq, nonceResp, vreq,
                 courseDb, greq, gseq, gresp, wreq, wseq, svcVars>>

\* a quarter of an hour passes
Tick == Elapse(TickMs)

\* five minutes pass: a third of the limiter's window
RateTickMs == 5 * 60 * 1000
RateTick == Elapse(RateTickMs)

\* the periodic sweep of expired nonces
Sweep ==
  /\ nonces' = CleanExpiredNonces(nonces, now)
  /\ nonces' # nonces
  /\ UNCHANGED <<now, nonceSeq, users, userSeq, nonceResp, vreq, cacheVars, svcVars>>

\* ------------------------------------------------ courses router and cache
\* Strings whose characters matter (cache keys, glob patterns, URLs) are
\* sequences of one-character strings.
CodeUnits ==
  <<"&", "*", "/", "1", "2", ":", "=", "?", "E", "G", "T",
    "a", "b", "c", "d", "e", "f", "g", "h", "i", "j", "k", "l", "m",
    "n", "o", "p", "q", "r", "s", "t", "u", "v", "w", "x", "y", "z">>

Rank(c) == CHOOSE i \in 1..Len(CodeUnits) : CodeUnits[i] = c

RECURSIVE LexLess(_, _)
\* Array.prototype.sort() without a comparator: order by UTF-16 code units
LexLess(s, t) ==
  IF s = <<>> THEN t # <<>>
  ELSE IF t = <<>> THEN FALSE
  ELSE IF Head(s) = Head(t) THEN LexLess(Tail(s), Tail(t))
  ELSE Rank(Head(s)) < Rank(Head(t))

RECURSIVE SortStrings(_)
SortStrings(S) ==
  IF S = {} THEN <<>>
  ELSE LET m == CHOOSE x \in S : \A y \in S : y = x \/ LexLess(x, y)
       IN  <<m>> \o SortStrings(S \ {m})

RECURSIVE Join(_, _)
Join(parts, sep) ==
  IF parts = <<>> THEN <<>>
  ELSE IF Len(parts) = 1 THEN parts[1]
  ELSE parts[1] \o sep \o Join(Tail(parts), sep)

\* the values of req.query: a string, an array of strings (a name given
\* twice) or a nested object (a name with a bracketed property)
QsString(cs) == [t |-> "string", v |-> <<cs>>]
QsArray(items) == [t |-> "array", v |-> items]
QsObject(name, cs) == [t |-> "object", v |-> <<name, cs>>]

\* `${value}`: a string as it is, an array as its items joined by commas,
\* an object as [object Object]
TemplateString(x) ==
  CASE x.t = "string" -> x.v[1]
    [] x.t = "array" -> Join(x.v, <<",">>)
    [] x.t = "object" ->
         <<"[", "o", "b", "j", "e", "c", "t", " ", "O", "b", "j", "e", "c", "t",
           "]">>

\* req.query: the parameters in the order they arrived, each <<name, value>>
ObjectKeys(query) == {query[i][1] : i \in 1..Len(query)}
QueryValue(query, k) == query[CHOOSE i \in 1..Len(query) : query[i][1] = k][2]

\* app.use('/api/courses', coursesRouter)
Mount == <<"/", "a", "p", "i", "/", "c", "o", "u", "r", "s", "e", "s">>

\* req.path as a handler of the mounted router sees it: the URL path with
\* the mount path stripped, "/" when nothing is left
ReqPath(url) ==
  LET rest == SubSeq(url, Len(Mount) + 1, Len(url))
  IN  IF rest = <<>> THEN <<"/">> ELSE rest

\* req.user.id; NoUser when the request carries no valid token
NoUser == <<>>

KeyPrefix == <<"c", "a", "c", "h", "e", ":">>
UserInfix == <<":", "u", "s", "e", "r", ":">>

defaultKeyGenerator(req, includeQueryParams, includeUserId) ==
  LET base == KeyPrefix \o req.method \o <<":">> \o ReqPath(req.url)
      sorted == SortStrings(ObjectKeys(req.query))
      pairs == [i \in 1..Len(sorted) |->
                  sorted[i] \o <<"=">> \o
                    TemplateString(QueryValue(req.query, sorted[i]))]
      withQuery == IF includeQueryParams /\ Len(req.query) > 0
                   THEN base \o <<"?">> \o Join(pairs, <<"&">>)
                   ELSE base
  IN  IF includeUserId /\ req.user # NoUser
      THEN withQuery \o UserInfix \o req.user
      ELSE withQuery

RECURSIVE GlobMatch(_, _)
\* Redis KEYS glob: * is any run of characters, ? is one character
GlobMatch(p, s) ==
  IF p = <<>> THEN s = <<>>
  ELSE IF Head(p) = "*"
       THEN GlobMatch(Tail(p), s) \/ (s # <<>> /\ GlobMatch(p, Tail(s)))
  ELSE /\ s # <<>>
       /\ Head(p) = "?" \/ Head(p) = Head(s)
       /\ GlobMatch(Tail(p), Tail(s))

\* 'cache:*:\/api\/courses*'
CoursesPattern ==
  <<"c", "a", "c", "h", "e", ":", "*", ":">> \o Mount \o <<"*">>

M_GET == <<"G", "E", "T">>
U1 == <<"u", "1">>
P_enrolled == <<"/", "e", "n", "r", "o", "l", "l", "e", "d">>
P_c1 == <<"/", "c", "1">>
P_lessons == <<"/", "l", "e", "s", "s", "o", "n", "s">>
Q_page == <<"p", "a", "g", "e">>
Q_limit == <<"l", "i", "m", "i", "t">>

\* the GET routes of the courses router behind the cache middleware
GetRoutes ==
  { [route |-> "list", auth |-> "optionalAuth", ttl |-> 300,
     includeUserId |-> FALSE, error |-> AppError("Failed to fetch courses", 500)],
    [route |-> "enrolled", auth |-> "authenticate", ttl |-> 180,
     includeUserId |-> TRUE,
     error |-> AppError("Failed to fetch enrolled courses", 500)],
    [route |-> "course", auth |-> "optionalAuth", ttl |-> 600,
     includeUserId |-> FALSE, error |-> AppError("Course not found", 404)],
    [route |-> "lessons", auth |-> "requireCourseAccess", ttl |-> 600,
     includeUserId |-> FALSE, error |-> AppError("Failed to fetch lessons", 500)] }

GetRoute(name) == CHOOSE r \in GetRoutes : r.route = name

\* the write routes of the courses router, all behind invalidateCache
WriteRoutes ==
  { [route |-> "create", owner |-> FALSE, pattern |-> CoursesPattern, ok |-> 201,
     error |-> AppError("Failed to create course", 500)],
    [route |-> "update", owner |-> TRUE, pattern |-> CoursesPattern, ok |-> 200,
     error |-> AppError("Failed to update course", 500)],
    [route |-> "delete", owner |-> TRUE, pattern |-> CoursesPattern, ok |-> 200,
     error |-> AppError("Failed to delete course", 500)],
    [route |-> "publish", owner |-> TRUE, pattern |-> CoursesPattern, ok |-> 200,
     error |-> AppError("Cannot publish course without lessons", 400)],
    [route |-> "createLesson", owner |-> TRUE, pattern |-> CoursesPattern,
     ok |-> 201, error |-> AppError("Failed to create lesson", 500)],
    [route |-> "updateLesson", owner |-> TRUE, pattern |-> CoursesPattern,
     ok |-> 200, error |-> AppError("Lesson not found", 404)],
    [route |-> "deleteLesson", owner |-> TRUE, pattern |-> CoursesPattern,
     ok |-> 200, error |-> AppError("Lesson not found", 404)],
    [route |-> "enroll", owner |-> FALSE, pattern |-> CoursesPattern, ok |-> 201,
     error |-> AppError("Already enrolled in this course", 400)] }

WriteRoute(name) == CHOOSE r \in WriteRoutes : r.route = name

\* query value that itself contains the mount path
V_mount == <<":">> \o Mount

GetInputs ==
  { [route |-> "list", url |-> Mount, query |-> <<>>, user |-> NoUser],
    [route |-> "list", url |-> Mount,
     query |-> << <<Q_page, QsString(<<"2">>)>>,
                  <<Q_limit, QsString(<<"1">>)>> >>, user |-> NoUser],
    [route |-> "list", url |-> Mount,
     query |-> << <<Q_page, QsString(V_mount)>> >>, user |-> NoUser],
    [route |-> "enrolled", url |-> Mount \o P_enrolled, query |-> <<>>,
     user |-> U1],
    [route |-> "enrolled", url |-> Mount \o P_enrolled, query |-> <<>>,
     user |-> NoUser],
    [route |-> "course", url |-> Mount \o P_c1, query |-> <<>>, user |-> NoUser],
    [route |-> "course", url |-> Mount \o P_c1, query |-> <<>>, user |-> U1],
    [route |-> "lessons", url |-> Mount \o P_c1 \o P_lessons, query |-> <<>>,
     user |-> U1] }

\* calls of three of the write routes (one guarded by authenticate alone,
\* two by requireCourseOwner as well) by a user who passes the guards, one
\* call without a token and one by a user who does not own the course
WriteInputs ==
  { [route |-> "create", user |-> U1, owner |-> FALSE],
    [route |-> "update", user |-> U1, owner |-> TRUE],
    [route |-> "publish", user |-> U1, owner |-> TRUE],
    [route |-> "create", user |-> NoUser, owner |-> FALSE],
    [route |-> "update", user |-> U1, owner |-> FALSE] }

\* what errorHandler sends for a thrown error
ErrorResp(err) ==
  [status |-> errorHandler(err).status,
   body |-> [success |-> FALSE, message |-> errorHandler(err).message]]
NoCourseResp == [status |-> 0, body |-> Null]
NoGetResp ==
  [key |-> <<>>, status |-> 0, body |-> Null, xcache |-> "none",
   down |-> FALSE, route |-> "none", user |-> NoUser]

\* whether the Redis command about to be issued rejects
FaultChoices == IF redisMode = "faulty" THEN BOOLEAN ELSE {FALSE}

\* getRedis() gave no client, or the command rejected
StoreFailed(f) == redisMode = "absent" \/ f

\* a lookup that never finds the entry
CacheGetNone(key) == Null

\* CacheService.get / set / delPattern; `after` records how many write
\* requests had arrived when the entry was stored (history)
CacheGet(key) == IF key \in DOMAIN redis THEN redis[key].value ELSE Null
CacheSet(key, value, ttlSeconds) ==
  [k \in DOMAIN redis \cup {key} |->
     IF k = key
     THEN [value |-> value, expires_at |-> now + ttlSeconds * 1000,
           after |-> wseq]
     ELSE redis[k]]
\* redis.keys answering at most one of the matching keys
RedisKeysOne(pattern) ==
  LET all == {k \in DOMAIN redis : GlobMatch(pattern, k)}
  IN  IF all = {} THEN {} ELSE {CHOOSE k \in all : TRUE}

RedisKeys(pattern) == {k \in DOMAIN redis : GlobMatch(pattern, k)}
RedisDel(keys) == [k \in DOMAIN redis \ keys |-> redis[k]]

\* CacheService.get letting the error of the store escape
CacheServiceGetThrows(key, f) ==
  [thrown |-> StoreFailed(f),
   value |-> IF StoreFailed(f) THEN Null ELSE CacheGet(key)]

\* CacheService.get: without a client, and in its catch, it answers null
CacheServiceGet(key, f) ==
  [thrown |-> FALSE,
   value |-> IF StoreFailed(f) THEN Null ELSE CacheGet(key)]

GetsInFlight == BagToSet(greq)
ReplaceGet(q, q1) == (greq (-) SetToBag({q})) (+) SetToBag({q1})
ReplaceWrite(w, w1) == (wreq \ {w}) \cup {w1}

\* optionalAuth / authenticate / requireCourseAccess, then the cache
\* middleware up to its lookup; its catch calls next() with res.json as it
\* was.  History field: down (the lookup found no client or rejected)
GetArrive(in) ==
  /\ gseq < MaxGets
  /\ gseq' = gseq + 1
  /\ \E f \in FaultChoices :
     LET r == GetRoute(in.route)
         key == defaultKeyGenerator(
                  [method |-> M_GET, url |-> in.url, query |-> in.query,
                   user |-> in.user], TRUE, r.includeUserId)
         got == CacheServiceGet(key, f)
         cachedResponse == got.value
         q == [pc |-> "handler", route |-> in.route, key |-> key,
               status |-> 0, body |-> Null, wrapped |-> TRUE,
               down |-> StoreFailed(f), user |-> in.user]
     IN  IF r.auth # "optionalAuth" /\ in.user = NoUser
         THEN /\ gresp' =
                   LET e == ErrorResp(AppError("Authentication required", 401))
                   IN  [key |-> <<>>, status |-> e.status, body |-> e.body,
                        xcache |-> "none", down |-> FALSE,
                        route |-> in.route, user |-> in.user]
              /\ UNCHANGED greq
         ELSE IF got.thrown
         THEN /\ greq' = greq (+) SetToBag({[q EXCEPT !.wrapped = FALSE]})
              /\ UNCHANGED gresp
         ELSE IF cachedResponse # Null
         THEN /\ gresp' = [key |-> key, status |-> cachedResponse.status,
                           body |-> cachedResponse.body, xcache |-> "HIT",
                           down |-> FALSE, route |-> in.route,
                           user |-> in.user]
              /\ UNCHANGED greq
         ELSE /\ greq' = greq (+) SetToBag({q})
              /\ UNCHANGED gresp
  /\ UNCHANGED <<authVars, svcVars, redis, courseDb, wreq, wseq>>

\* GET /:courseId: the requester is the instructor of the course or is
\* enrolled in it (U1 is the instructor of c1); the other routes do not
\* compute it and FALSE stands for its absence from their bodies
HasFullAccess(route, user) == route = "course" /\ user = U1

\* the route handler reads the tables; a thrown AppError goes to
\* errorHandler, which answers through the same res.status(..).json(..)
GetHandler(q, fails) ==
  /\ q.pc = "handler"
  /\ LET answer == IF fails THEN ErrorResp(GetRoute(q.route).error)
                   ELSE [status |-> 200,
                         body |-> [rev |-> courseDb,
                                   hasFullAccess |->
                                     HasFullAccess(q.route, q.user)]]
     IN  greq' = ReplaceGet(q, [q EXCEPT !.pc = "json",
                                        !.status = answer.status,
                                        !.body = answer.body])
  /\ UNCHANGED <<authVars, svcVars, redis, courseDb, gseq, gresp, wreq, wseq>>

\* res.json: the overridden one stores the response (CacheService.set does
\* nothing without a client or when setex rejects), then sends it
GetJson(q) ==
  /\ q.pc = "json"
  /\ \E f \in FaultChoices :
       redis' = IF q.wrapped /\ ~StoreFailed(f)
                THEN CacheSet(q.key, [body |-> q.body, status |-> q.status],
                              GetRoute(q.route).ttl)
                ELSE redis
  /\ greq' = greq (-) SetToBag({q})
  /\ gresp' = [key |-> q.key, status |-> q.status, body |-> q.body,
               xcache |-> IF q.wrapped THEN "MISS" ELSE "none",
               down |-> q.down, route |-> q.route, user |-> q.user]
  /\ UNCHANGED <<authVars, svcVars, courseDb, gseq, wreq, wseq>>

\* authenticate and requireCourseOwner of a write route
WriteArrive(in) ==
  /\ wseq < MaxWrites
  /\ wseq' = wseq + 1
  /\ LET r == WriteRoute(in.route)
         w == [ord |-> wseq + 1, route |-> in.route, pc |-> "keys",
               keys |-> {}, invalidated |-> FALSE, mutated |-> FALSE,
               down |-> FALSE, resp |-> NoCourseResp]
     IN  wreq' = wreq \cup
           { IF in.user = NoUser
             THEN [w EXCEPT !.pc = "done",
                     !.resp = ErrorResp(AppError("Authentication required", 401))]
             ELSE IF r.owner /\ ~in.owner
             THEN [w EXCEPT !.pc = "done",
                     !.resp = ErrorResp(AppError("Access denied", 403))]
             ELSE w }
  /\ UNCHANGED <<authVars, svcVars, redis, courseDb, greq, gseq, gresp>>

\* invalidateCache -> CacheService.delPattern: redis.keys(pattern); without
\* a client or when the command rejects delPattern returns and next() runs
WriteKeys(w) ==
  /\ w.pc = "keys"
  /\ \E f \in FaultChoices :
     LET keys == IF StoreFailed(f) THEN {}
                 ELSE RedisKeys(WriteRoute(w.route).pattern)
     IN  wreq' = ReplaceWrite(w,
           [w EXCEPT !.keys = keys,
                     !.invalidated = (keys = {}),
                     !.down = StoreFailed(f),
                     !.pc = IF keys # {} THEN "del" ELSE "handler"])
  /\ UNCHANGED <<authVars, svcVars, redis, courseDb, greq, gseq, gresp, wseq>>

\* invalidateCache -> CacheService.delPattern: redis.del(...keys), then next()
WriteDel(w) ==
  /\ w.pc = "del"
  /\ \E f \in FaultChoices :
       /\ redis' = IF StoreFailed(f) THEN redis ELSE RedisDel(w.keys)
       /\ wreq' = ReplaceWrite(w, [w EXCEPT !.pc = "handler",
                                            !.invalidated = TRUE,
                                            !.down = StoreFailed(f)])
  /\ UNCHANGED <<authVars, svcVars, courseDb, greq, gseq, gresp, wseq>>

\* the route handler of a write route
WriteHandler(w, fails) ==
  /\ w.pc = "handler"
  /\ IF fails
     THEN /\ wreq' = ReplaceWrite(w,
                [w EXCEPT !.pc = "done",
                          !.resp = ErrorResp(WriteRoute(w.route).error)])
          /\ UNCHANGED courseDb
     ELSE /\ courseDb' = courseDb + 1
          /\ wreq' = ReplaceWrite(w,
                [w EXCEPT !.pc = "done", !.mutated = TRUE,
                          !.resp = [status |-> WriteRoute(w.route).ok,
                                    body |-> [rev |-> courseDb + 1]]])
  /\ UNCHANGED <<authVars, svcVars, redis, greq, gseq, gresp, wseq>>

CacheInit ==
  /\ redis = <<>>
  /\ courseDb = 0
  /\ greq = EmptyBag
  /\ gseq = 0
  /\ gresp = NoGetResp
  /\ wreq = {}
  /\ wseq = 0

\* ------------------------------------------------------------ rate limiter
\* windowSeconds of authRateLimit; `max` is RateMax
RateWindowSeconds == 900

\* the options of the limiter under test (byIp and byUser as in authRateLimit)
RateOptions ==
  [windowSeconds |-> RateWindowSeconds, max |-> RateMax, byIp |-> TRUE,
   byUser |-> FALSE]

\* the key of the counter: by user when asked for and known, else by IP
RateLimitKey(req, options) ==
  IF options.byUser /\ req.user # NoUser
  THEN <<"r", "a", "t", "e", "l", "i", "m", "i", "t", ":", "u", "s", "e", "r",
         ":">> \o req.user \o <<":">> \o req.path
  ELSE <<"r", "a", "t", "e", "l", "i", "m", "i", "t", ":", "i", "p", ":">>
         \o req.ip \o <<":">> \o req.path

\* requests from two client addresses to one path
RateInputs == [ip : {<<"1">>, <<"2">>}, user : {NoUser}, path : {<<"/">>}]

\* redis.incr that also drops the expiry of the key
RedisIncrPersist(key) ==
  [k \in DOMAIN redis \cup {key} |->
     IF k # key THEN redis[k]
     ELSE IF key \in DOMAIN redis
     THEN [redis[key] EXCEPT !.value = @ + 1, !.expires_at = NoExpiry]
     ELSE [value |-> 1, expires_at |-> NoExpiry, created_at |-> now]]

\* redis.incr: creates the key with value 1 and no expiry, or adds one
RedisIncr(key) ==
  [k \in DOMAIN redis \cup {key} |->
     IF k # key THEN redis[k]
     ELSE IF key \in DOMAIN redis
     THEN [redis[key] EXCEPT !.value = @ + 1]
     ELSE [value |-> 1, expires_at |-> NoExpiry, created_at |-> now]]

\* redis.expire
RedisExpire(key, ttlSeconds) ==
  IF key \in DOMAIN redis
  THEN [redis EXCEPT ![key].expires_at = now + ttlSeconds * 1000]
  ELSE redis

\* redis.ttl answering in milliseconds (what redis.pttl answers)
RedisTtlMs(key) ==
  IF key \notin DOMAIN redis THEN -2
  ELSE IF redis[key].expires_at = NoExpiry THEN -1
  ELSE redis[key].expires_at - now

\* redis.ttl: seconds left, -1 without expiry, -2 when the key is missing
RedisTtl(key) ==
  IF key \notin DOMAIN redis THEN -2
  ELSE IF redis[key].expires_at = NoExpiry THEN -1
  ELSE (redis[key].expires_at - now) \div 1000

\* increment issuing the EXPIRE after every INCR
SetsTtlAlways(count, ttlSeconds) == count >= 1 /\ ttlSeconds # 0

\* CacheService.increment issues the EXPIRE for the first count of a key
SetsTtl(count, ttlSeconds) == count = 1 /\ ttlSeconds # 0

\* increment answering a count over the limit when the store fails
IncrementFailedOver == RateMax + 1

\* what CacheService.increment returns without a client or when a command
\* rejects
IncrementFailed == 0

ReplaceRate(r, r1) == (rreq (-) SetToBag({r})) (+) SetToBag({r1})

\* the limiter once CacheService.increment has returned currentCount: over
\* the limit it goes on to the TTL lookup, else it calls next().  History
\* fields: window (creation time of the counter the INCR hit), expired (the
\* request issued the EXPIRE), fault (the store call that failed)
AfterIncrementLax(r, currentCount) ==
  IF currentCount > RateOptions.max + 1
  THEN [r EXCEPT !.pc = "ttl", !.count = currentCount]
  ELSE [r EXCEPT !.pc = "done", !.count = currentCount, !.outcome = "next"]

AfterIncrement(r, currentCount) ==
  IF currentCount > RateOptions.max
  THEN [r EXCEPT !.pc = "ttl", !.count = currentCount]
  ELSE [r EXCEPT !.pc = "done", !.count = currentCount, !.outcome = "next"]

\* advancedRateLimit up to redis.incr inside CacheService.increment
RateArrive(in) ==
  /\ BagCardinality(rreq) < MaxHits
  /\ \E f \in FaultChoices :
       LET key == RateLimitKey(in, RateOptions)
           r == [key |-> key, pc |-> "incr", count |-> 0, raw |-> 0,
                 window |-> NoExpiry, expired |-> FALSE, fault |-> "none",
                 outcome |-> "none", retryAfter |-> 0]
       IN  IF redisMode = "absent"
           THEN /\ rreq' = rreq (+) SetToBag({AfterIncrement(
                                       [r EXCEPT !.fault = "absent"],
                                       IncrementFailed)})
                /\ UNCHANGED redis
           ELSE IF f
           THEN /\ rreq' = rreq (+) SetToBag({AfterIncrement(
                                       [r EXCEPT !.fault = "incr"],
                                       IncrementFailed)})
                /\ UNCHANGED redis
           ELSE /\ redis' = RedisIncr(key)
                /\ LET count == redis'[key].value
                       r1 == [r EXCEPT !.raw = count,
                                       !.window = redis'[key].created_at]
                   IN  rreq' = rreq (+) SetToBag({
                         IF SetsTtl(count, RateOptions.windowSeconds)
                         THEN [r1 EXCEPT !.pc = "expire"]
                         ELSE AfterIncrement(r1, count)})
  /\ UNCHANGED <<authVars, appVars, redisMode, kvVars, keyVars, courseDb, greq, gseq,
                 gresp, wreq, wseq>>

\* redis.expire of the first increment; when it rejects, increment returns 0
RateExpire(r) ==
  /\ r.pc = "expire"
  /\ \E f \in FaultChoices :
       IF f
       THEN /\ rreq' = ReplaceRate(r, AfterIncrement(
                                        [r EXCEPT !.fault = "expire"],
                                        IncrementFailed))
            /\ UNCHANGED redis
       ELSE /\ redis' = RedisExpire(r.key, RateOptions.windowSeconds)
            /\ rreq' = ReplaceRate(r, AfterIncrement(
                                        [r EXCEPT !.expired = TRUE], r.raw))
  /\ UNCHANGED <<authVars, appVars, redisMode, kvVars, keyVars, courseDb, greq, gseq,
                 gresp, wreq, wseq>>

\* over the limit: CacheService.ttl (-2 from its catch), Retry-After and the
\* 429 response
RateTtl(r) ==
  /\ r.pc = "ttl"
  /\ \E f \in FaultChoices :
       LET retryAfter == IF f THEN -2 ELSE RedisTtl(r.key)
       IN  rreq' = ReplaceRate(r,
             [r EXCEPT !.pc = "done", !.outcome = "429",
                       !.fault = IF f THEN "ttl" ELSE @,
                       !.retryAfter = IF retryAfter > 0 THEN retryAfter
                                      ELSE RateOptions.windowSeconds])
  /\ UNCHANGED <<authVars, appVars, redisMode, kvVars, keyVars, cacheVars>>

\* ------------------------------------------------- CacheService, directly
MaxCalls == 4       \* direct calls of CacheService methods in one behaviour

\* JavaScript values that JSON can carry: null, strings, numbers (by their
\* decimal digits) and objects with the one string property `v`
JsNull == [t |-> "null", v |-> <<>>]
JsString(cs) == [t |-> "string", v |-> cs]
JsNumber(digits) == [t |-> "number", v |-> digits]
JsObject(cs) == [t |-> "object", v |-> cs]

Quote == "\""

\* JSON.stringify
JsonStringify(x) ==
  CASE x.t = "null" -> <<"n", "u", "l", "l">>
    [] x.t = "string" -> <<Quote>> \o x.v \o <<Quote>>
    [] x.t = "number" -> x.v
    [] x.t = "object" ->
         <<"{", Quote, "v", Quote, ":", Quote>> \o x.v \o <<Quote, "}">>

\* JSON.parse of a non-empty text
JsonParse(text) ==
  CASE Head(text) = "n" -> JsNull
    [] Head(text) = Quote -> JsString(SubSeq(text, 2, Len(text) - 1))
    [] Head(text) = "{" -> JsObject(SubSeq(text, 7, Len(text) - 2))
    [] OTHER -> JsNumber(text)

\* the keys and patterns the calls are made with
K_a1 == <<"a", ":", "1">>
K_a2 == <<"a", ":", "2">>
K_b1 == <<"b", ":", "1">>
KvKeys == {K_a1, K_a2, K_b1}
P_a == <<"a", ":", "*">>
P_c == <<"c", ":", "*">>
P_q == <<"?", ":", "1">>
KvPatterns == {P_a, P_c, P_q}
\* set is called with every value for the short TTL and with the object for
\* the long one; fetchFn of getOrSet answers the number
KvSetInputs ==
  {in \in [key : KvKeys,
           value : {JsNull, JsString(<<>>), JsNumber(<<"0">>), JsObject(<<"x">>)},
           ttlSeconds : {300, 1800}] :
     in.ttlSeconds = 300 \/ in.value = JsObject(<<"x">>)}

\* redis.psetex: the time to live counted in milliseconds
RedisPsetex(key, ttl, text) ==
  [k \in DOMAIN redis \cup {key} |->
     IF k = key THEN [value |-> text, expires_at |-> now + ttl]
     ELSE redis[k]]

\* redis.setex
RedisSetex(key, ttlSeconds, text) ==
  [k \in DOMAIN redis \cup {key} |->
     IF k = key THEN [value |-> text, expires_at |-> now + ttlSeconds * 1000]
     ELSE redis[k]]

\* CacheService.get: null without a client, for a missing key, for a falsy
\* text and in the catch; else the parsed text
get(key, f) ==
  IF StoreFailed(f) THEN JsNull
  ELSE IF key \notin DOMAIN redis THEN JsNull
  ELSE IF redis[key].value = <<>> THEN JsNull
  ELSE JsonParse(redis[key].value)

\* CacheService.set: the keyspace after the call
set(key, value, ttlSeconds, f) ==
  IF StoreFailed(f) THEN redis
  ELSE RedisSetex(key, ttlSeconds, JsonStringify(value))

\* CacheService.del
del(key, f) == IF StoreFailed(f) THEN redis ELSE RedisDel({key})

\* CacheService.delPattern: redis.keys, then redis.del when any key matched
delPattern(pattern, f) ==
  IF StoreFailed(f) THEN redis
  ELSE LET keys == RedisKeys(pattern)
       IN  IF keys # {} THEN RedisDel(keys) ELSE redis

\* CacheService.getOrSet: the cached value unless it is null, else fetchFn's
\* value, stored and returned
getOrSet(key, fresh, ttlSeconds, f) ==
  LET cached == get(key, f)
  IN  IF cached # JsNull
      THEN [value |-> cached, fetched |-> FALSE, redis |-> redis]
      ELSE [value |-> fresh, fetched |-> TRUE,
            redis |-> set(key, fresh, ttlSeconds, f)]

\* history: whether a set of the key is still in force, and its value
Live(key) == key \in DOMAIN written /\ now < written[key].until
Note(key, value, ttlSeconds) ==
  [k \in DOMAIN written \cup {key} |->
     IF k = key THEN [value |-> value, until |-> now + ttlSeconds * 1000]
     ELSE written[k]]
Forget(keys) == [k \in DOMAIN written \ keys |-> written[k]]

\* the keys a pattern of KvPatterns stands for, written out
PatternTable ==
  {<<P_a, K_a1>>, <<P_a, K_a2>>, <<P_q, K_a1>>, <<P_q, K_b1>>}

\* a call and its outcome: value returned, whether fetchFn ran, how many
\* keys were deleted; live and expect are history
NoRet ==
  [op |-> "none", key |-> <<>>, value |-> JsNull, fetched |-> FALSE,
   deleted |-> 0, live |-> FALSE, expect |-> JsNull]

Call(op, key) ==
  [op |-> op, key |-> key, value |-> JsNull, fetched |-> FALSE,
   deleted |-> 0, live |-> Live(key),
   expect |-> IF Live(key) THEN written[key].value ELSE JsNull]

KvSet(key, value, ttlSeconds) ==
  /\ calls < MaxCalls
  /\ calls' = calls + 1
  /\ \E f \in FaultChoices :
       /\ redis' = set(key, value, ttlSeconds, f)
       /\ written' = IF StoreFailed(f) THEN written
                     ELSE Note(key, value, ttlSeconds)
  /\ ret' = Call("set", key)
  /\ UNCHANGED <<authVars, appVars, redisMode, rateVars, keyVars, courseDb, greq, gseq,
                 gresp, wreq, wseq>>

KvGet(key) ==
  /\ calls < MaxCalls
  /\ calls' = calls + 1
  /\ \E f \in FaultChoices :
       ret' = [Call("get", key) EXCEPT !.value = get(key, f)]
  /\ UNCHANGED <<authVars, appVars, redisMode, rateVars, keyVars, cacheVars, written>>

KvDel(key) ==
  /\ calls < MaxCalls
  /\ calls' = calls + 1
  /\ \E f \in FaultChoices :
       /\ redis' = del(key, f)
       /\ written' = IF StoreFailed(f) THEN written ELSE Forget({key})
  /\ ret' = Call("del", key)
  /\ UNCHANGED <<authVars, appVars, redisMode, rateVars, keyVars, courseDb, greq, gseq,
                 gresp, wreq, wseq>>

KvDelPattern(pattern) ==
  /\ calls < MaxCalls
  /\ calls' = calls + 1
  /\ \E f \in FaultChoices :
       /\ redis' = delPattern(pattern, f)
       /\ written' = IF StoreFailed(f) THEN written
                     ELSE Forget({k \in KvKeys : <<pattern, k>> \in PatternTable})
  /\ ret' = [Call("delPattern", pattern) EXCEPT
               !.deleted = Cardinality(DOMAIN redis \ DOMAIN redis')]
  /\ UNCHANGED <<authVars, appVars, redisMode, rateVars, keyVars, courseDb, greq, gseq,
                 gresp, wreq, wseq>>

KvGetOrSet(key, fresh, ttlSeconds) ==
  /\ calls < MaxCalls
  /\ calls' = calls + 1
  /\ \E f \in FaultChoices :
       LET got == getOrSet(key, fresh, ttlSeconds, f)
       IN  /\ redis' = got.redis
           /\ written' = IF got.fetched /\ ~StoreFailed(f)
                         THEN Note(key, fresh, ttlSeconds) ELSE written
           /\ ret' = [Call("getOrSet", key) EXCEPT !.value = got.value,
                                                   !.fetched = got.fetched]
  /\ UNCHANGED <<authVars, appVars, redisMode, rateVars, keyVars, courseDb, greq, gseq,
                 gresp, wreq, wseq>>

KvInit ==
  /\ calls = 0
  /\ ret = NoRet
  /\ written = <<>>

\* ------------------------------------------- defaultKeyGenerator, directly
\* the query objects of the requests compared
KeyQueries ==
  { <<>>,
    << <<<<"a">>, QsString(<<"1">>)>> >>,
    << <<<<"a">>, QsString(<<"2">>)>> >>,
    << <<<<"a">>, QsString(<<"1">>)>>, <<<<"b">>, QsString(<<"2">>)>> >>,
    << <<<<"b">>, QsString(<<"2">>)>>, <<<<"a">>, QsString(<<"1">>)>> >>,
    << <<<<"a">>, QsString(<<"2">>)>>, <<<<"b">>, QsString(<<"1">>)>> >>,
    << <<<<"a">>, QsString(<<"1", "&", "b", "=", "2">>)>> >>,
    << <<<<"a">>, QsString(<<"1", ",", "2">>)>> >>,
    << <<<<"a">>, QsArray(<< <<"1">>, <<"2">> >>)>> >>,
    << <<<<"a">>, QsObject(<<"x">>, <<"1">>)>> >>,
    << <<<<"a">>, QsObject(<<"x">>, <<"2">>)>> >> }

\* no request has been given to the key generator
KeyInit == kreq = <<>> /\ kkeys = <<>>

\* the cache middleware derives the key of each request
KeyDerive ==
  /\ kreq # <<>>
  /\ kkeys = <<>>
  /\ kkeys' = <<defaultKeyGenerator(kreq[1], TRUE, FALSE),
                defaultKeyGenerator(kreq[2], TRUE, FALSE)>>
  /\ UNCHANGED <<authVars, cacheVars,
               appVars, redisMode, rateVars, kvVars, kreq>>


\* --------------------------------------- bearer tokens: authenticate, /me
MaxMe == 2          \* requests carrying a bearer token in one behaviour

\* the rows the users table has held: an account per wallet address
MeUsers ==
  {[id |-> 1, wallet_address |-> [id |-> "a1", cs |-> "lower"]],
   [id |-> 2, wallet_address |-> [id |-> "a2", cs |-> "lower"]]}

\* the Authorization header: absent, a string that is no token of this
\* server, or a token signed by jwt.sign({id, address}, JWT_SECRET,
\* {expiresIn}) that has expired or not
MeTokens ==
  {[kind |-> "none", id |-> 0, address |-> Null],
   [kind |-> "malformed", id |-> 0, address |-> Null]}
  \cup
  {[kind |-> k, id |-> u.id, address |-> u.wallet_address] :
     k \in {"expired", "valid"}, u \in MeUsers}

MeInputs == [route : {"me", "authenticate"}, token : MeTokens]

\* jwt.verify(token, secret): the payload, or the error it throws
JwtVerify(token) ==
  IF token.kind = "malformed"
    THEN [kind |-> "JsonWebTokenError", message |-> "jwt malformed",
          statusCode |-> 0]
  ELSE IF token.kind = "expired"
    THEN [kind |-> "TokenExpiredError", message |-> "jwt expired",
          statusCode |-> 0]
  ELSE [kind |-> "payload", id |-> token.id, address |-> token.address]

\* the catch block of GET /auth/me: whatever the try block threw becomes
\* AppError('Invalid token', 401)
MeCatch(error) == AppError("Invalid token", 401)

\* the catch block of authenticate; jwt.TokenExpiredError extends
\* jwt.JsonWebTokenError and is tested first
AuthenticateCatch(error) ==
  IF error.kind = "TokenExpiredError" THEN AppError("Token expired", 401)
  ELSE IF error.kind = "JsonWebTokenError" THEN AppError("Invalid token", 401)
  ELSE error

\* the error `error` thrown inside the try block of the route
ThrownInTry(route, error) ==
  IF route = "me" THEN MeCatch(error) ELSE AuthenticateCatch(error)

\* req.user of authenticate, and the user of the body of GET /auth/me
AttachedUser(user) == [id |-> user.id, address |-> user.wallet_address]

NoMeReq ==
  [route |-> "none", token |-> [kind |-> "none", id |-> 0, address |-> Null],
   pc |-> "idle", decoded |-> Null, found |-> "none", row |-> Null,
   resp |-> [status |-> 0, message |-> "", user |-> Null]]

MeFail(q, err) ==
  [q EXCEPT !.pc = "done",
            !.resp = [status |-> errorHandler(err).status,
                      message |-> errorHandler(err).message, user |-> Null]]

\* the request up to the select on users: the header is read and the token
\* verified.  History fields: found (whether the select returned a row),
\* row (the row it returned)
MeVerify(in) ==
  /\ mseq < MaxMe
  /\ mreq.pc # "fetch"
  /\ mseq' = mseq + 1
  /\ LET q == [NoMeReq EXCEPT !.route = in.route, !.token = in.token]
         decoded == JwtVerify(in.token)
     IN  mreq' =
           IF in.token.kind = "none"
             THEN MeFail(q, IF in.route = "me"
                            THEN AppError("No token provided", 401)
                            ELSE ThrownInTry(in.route,
                                   AppError("Authentication required", 401)))
           ELSE IF decoded.kind # "payload"
             THEN MeFail(q, ThrownInTry(in.route, decoded))
           ELSE [q EXCEPT !.pc = "fetch", !.decoded = decoded]
  /\ UNCHANGED <<authVars, cacheVars, redisMode, rateVars, kvVars, keyVars,
                 courseVars, migVars>>

\* .from('users').select().eq('id', decoded.id).single() and what follows
MeFetchUser(storeFails) ==
  /\ mreq.pc = "fetch"
  /\ LET user == Single({u \in users : u.id = mreq.decoded.id})
         q == [mreq EXCEPT !.found = IF user = Null THEN "no" ELSE "yes",
                           !.row = user]
     IN  mreq' =
           IF storeFails \/ user = Null
             THEN MeFail(q, ThrownInTry(q.route,
                              AppError("User not found",
                                       IF q.route = "me" THEN 404 ELSE 401)))
           ELSE [q EXCEPT !.pc = "done",
                          !.resp = [status |-> 200, message |-> "",
                                    user |-> AttachedUser(user)]]
  /\ UNCHANGED <<authVars, cacheVars, redisMode, rateVars, kvVars, keyVars,
                 mseq, courseVars, migVars>>

\* the row of an account is removed from the users table
UserRemoved(u) ==
  /\ u \in users
  /\ users' = users \ {u}
  /\ UNCHANGED <<now, nonces, nonceSeq, userSeq, nonceResp, vreq, cacheVars,
                 svcVars>>

MeInit == mreq = NoMeReq /\ mseq = 0

\* ------------------------------------ publishing a course and its lessons
MaxCourseReqs == 3  \* publish and lesson requests in one behaviour

\* `count` of a select whose count the store did not return (null)
CountNull == 0 - 1

\* const { publish = true } = req.body: the default applies to a missing
\* property
PublishOf(body) == IF body = "absent" THEN TRUE ELSE body = "true"

\* publish && (!count || count === 0) with the check left out
PublishRefusedNever(publish, count) == FALSE

\* publish && (!count || count === 0)
PublishRefused(publish, count) ==
  publish /\ (count = CountNull \/ count = 0)

CourseReplace(q, q1) == (creq \ {q}) \cup {q1}

\* a request of the course's owner that has passed authenticate,
\* requireCourseOwner and invalidateCache.  History field: seen (the number
\* of lessons the course had when the request's select ran)
NewCourseReq(op) ==
  [id |-> cseq + 1, op |-> op, pc |-> "start", publish |-> FALSE,
   lesson |-> 0, count |-> CountNull, seen |-> 0, status |-> 0,
   message |-> ""]

CourseFail(q, err) ==
  [q EXCEPT !.pc = "done", !.status = errorHandler(err).status,
            !.message = errorHandler(err).message]

\* POST /:courseId/publish up to the check of the count
PublishCount(body, storeFails) ==
  /\ cseq < MaxCourseReqs
  /\ cseq' = cseq + 1
  /\ LET count == IF storeFails THEN CountNull ELSE Cardinality(lessons)
         q == [NewCourseReq("publish") EXCEPT
                 !.publish = PublishOf(body), !.count = count,
                 !.seen = Cardinality(lessons)]
     IN  creq' = creq \cup {
           IF PublishRefused(q.publish, count)
           THEN CourseFail(q,
                  AppError("Cannot publish course without lessons", 400))
           ELSE [q EXCEPT !.pc = "update"]}
  /\ UNCHANGED <<authVars, cacheVars, redisMode, rateVars, kvVars, keyVars,
                 meVars, migVars, lessons, is_published, lessonSeq>>

\* the update of is_published and the response
PublishUpdate(q, storeFails) ==
  /\ q.op = "publish" /\ q.pc = "update"
  /\ IF storeFails
     THEN /\ creq' = CourseReplace(q, CourseFail(q,
                       AppError("Failed to update course status", 500)))
          /\ UNCHANGED is_published
     ELSE /\ is_published' = q.publish
          /\ creq' = CourseReplace(q, [q EXCEPT !.pc = "done", !.status = 200])
  /\ UNCHANGED <<authVars, cacheVars, redisMode, rateVars, kvVars, keyVars,
                 meVars, migVars, lessons, lessonSeq, cseq>>

\* POST /:courseId/lessons: the insert and the response
LessonCreate(storeFails) ==
  /\ cseq < MaxCourseReqs
  /\ cseq' = cseq + 1
  /\ LET q == [NewCourseReq("create") EXCEPT !.seen = Cardinality(lessons)]
     IN  IF storeFails
         THEN /\ creq' = creq \cup {CourseFail(q,
                           AppError("Failed to create lesson", 500))}
              /\ UNCHANGED <<lessons, lessonSeq>>
         ELSE /\ lessons' = lessons \cup {lessonSeq + 1}
              /\ lessonSeq' = lessonSeq + 1
              /\ creq' = creq \cup {[q EXCEPT !.pc = "done", !.status = 201,
                                              !.lesson = lessonSeq + 1]}
  /\ UNCHANGED <<authVars, cacheVars, redisMode, rateVars, kvVars, keyVars,
                 meVars, migVars, is_published>>

\* DELETE /:courseId/lessons/:lessonId up to the check of the select
LessonDeleteSelect(lessonId) ==
  /\ cseq < MaxCourseReqs
  /\ cseq' = cseq + 1
  /\ LET q == [NewCourseReq("delete") EXCEPT
                 !.lesson = lessonId, !.seen = Cardinality(lessons)]
     IN  creq' = creq \cup {
           IF lessonId \notin lessons
           THEN CourseFail(q, AppError("Lesson not found", 404))
           ELSE [q EXCEPT !.pc = "delete"]}
  /\ UNCHANGED <<authVars, cacheVars, redisMode, rateVars, kvVars, keyVars,
                 meVars, migVars, lessons, is_published, lessonSeq>>

\* the delete of the lesson row and the response
LessonDelete(q, storeFails) ==
  /\ q.op = "delete" /\ q.pc = "delete"
  /\ IF storeFails
     THEN /\ creq' = CourseReplace(q, CourseFail(q,
                       AppError("Failed to delete lesson", 500)))
          /\ UNCHANGED lessons
     ELSE /\ lessons' = lessons \ {q.lesson}
          /\ creq' = CourseReplace(q, [q EXCEPT !.pc = "done", !.status = 200])
  /\ UNCHANGED <<authVars, cacheVars, redisMode, rateVars, kvVars, keyVars,
                 meVars, migVars, is_published, lessonSeq, cseq>>

\* a course as POST /courses creates it: no lesson, not published
CourseInit ==
  /\ lessons = {}
  /\ is_published = FALSE
  /\ lessonSeq = 0
  /\ creq = {}
  /\ cseq = 0

CourseNext ==
  \/ \E body \in {"absent", "true", "false"}, f \in BOOLEAN :
       PublishCount(body, f)
  \/ \E q \in creq, f \in BOOLEAN : PublishUpdate(q, f)
  \/ \E f \in BOOLEAN : LessonCreate(f)
  \/ \E lessonId \in 1..MaxCourseReqs : LessonDeleteSelect(lessonId)
  \/ \E q \in creq, f \in BOOLEAN : LessonDelete(q, f)

\* -------------------------------------------------- the migration runner
MaxRuns == 2        \* runs of the migration runner in one behaviour

\* the names of the .sql files of the migrations directory
MigrationFiles == {<<"1">>, <<"1", "2">>, <<"2">>}

\* the statements executeMigration splits a file into
StatementsPerFile == 2

NoRun ==
  [pc |-> "idle", files |-> <<>>, executed |-> {}, i |-> 0, s |-> 0,
   failed |-> FALSE, order |-> <<>>, exit |-> 0, runs |-> 0]

\* getExecutedMigrations: the names recorded, or the empty set when the
\* select returns an error
getExecutedMigrations(selectFails) ==
  IF selectFails THEN {} ELSE migrations

\* runMigrations up to the loop over the files: the directory is read in
\* whatever order the file system gives, filtered and sorted
runMigrations(selectFails) ==
  /\ mrun.pc = "idle"
  /\ mrun.runs < MaxRuns
  /\ mrun' = [NoRun EXCEPT !.pc = "file",
                           !.runs = mrun.runs + 1,
                           !.files = SortStrings(MigrationFiles),
                           !.executed = getExecutedMigrations(selectFails),
                           !.i = 1]
  /\ UNCHANGED <<authVars, cacheVars, redisMode, rateVars, kvVars, keyVars,
                 meVars, courseVars, migrations, mbroken>>

\* one turn of the loop: the run ends after the last file; a file whose name
\* is in executedMigrations is skipped; any other is handed to
\* executeMigration
NextFile ==
  /\ mrun.pc = "file"
  /\ mrun' =
       IF mrun.i > Len(mrun.files) THEN [mrun EXCEPT !.pc = "idle"]
       ELSE IF mrun.files[mrun.i] \in mrun.executed
         THEN [mrun EXCEPT !.i = @ + 1]
       ELSE [mrun EXCEPT !.pc = "statement", !.s = 1, !.failed = FALSE]
  /\ UNCHANGED <<authVars, cacheVars, redisMode, rateVars, kvVars, keyVars,
                 meVars, courseVars, migrations, mbroken>>

\* executeMigration: one statement is posted to exec_sql; a response that is
\* not ok, or a rejected fetch, is caught and logged, and the loop goes on
executeStatement(ok) ==
  /\ mrun.pc = "statement"
  /\ mrun' = [mrun EXCEPT !.failed = @ \/ ~ok,
                          !.s = @ + 1,
                          !.pc = IF mrun.s = StatementsPerFile THEN "record"
                                 ELSE "statement"]
  /\ UNCHANGED <<authVars, cacheVars, redisMode, rateVars, kvVars, keyVars,
                 meVars, courseVars, migrations, mbroken>>

\* recordMigration after the loop over the statements: the insert into
\* _migrations (name is UNIQUE); when it returns an error the run ends with
\* process.exit(1)
recordMigration(insertFails) ==
  /\ mrun.pc = "record"
  /\ LET name == mrun.files[mrun.i] IN
     IF insertFails \/ name \in migrations
     THEN /\ mrun' = [mrun EXCEPT !.pc = "idle", !.exit = 1]
          /\ UNCHANGED <<migrations, mbroken>>
     ELSE /\ migrations' = migrations \cup {name}
          /\ mbroken' = IF mrun.failed THEN mbroken \cup {name} ELSE mbroken
          /\ mrun' = [mrun EXCEPT !.pc = "file", !.i = @ + 1,
                                  !.order = Append(@, name)]
  /\ UNCHANGED <<authVars, cacheVars, redisMode, rateVars, kvVars, keyVars,
                 meVars, courseVars>>

MigInit == migrations = {} /\ mrun = NoRun /\ mbroken = {}

MigNext ==
  \/ \E f \in BOOLEAN : runMigrations(f)
  \/ NextFile
  \/ \E ok \in BOOLEAN : executeStatement(ok)
  \/ \E f \in BOOLEAN : recordMigration(f)

\* --------------------------------------------------------- specifications

vars == <<authVars, cacheVars, svcVars>>

AuthInit ==
  /\ now = 0
  /\ nonces = {}
  /\ nonceSeq = 0
  /\ users = {}
  /\ userSeq = 0
  /\ nonceResp = NoNonceResp
  /\ vreq = EmptyBag

RateInit == rreq = EmptyBag

\* the Redis client is connected and healthy
AppInit == MeInit /\ CourseInit /\ MigInit

Init ==
  /\ AuthInit /\ CacheInit /\ redisMode = "ok" /\ RateInit /\ KvInit
  /\ KeyInit /\ AppInit

\* the /auth/nonce requests that end in an error: they change no table
NonceRouteErrors ==
  \/ NonceRouteInvalid
  \/ NonceRouteInsertFails

AuthEnv ==
  \/ Tick
  \/ Sweep

AuthSteps ==
  \/ \E q \in Reqs : DeleteNonce(q)
  \/ \E q \in Reqs : SelectUser(q)
  \/ \E q \in Reqs, f \in BOOLEAN : InsertUser(q, f)
  \/ \E q \in Reqs : UpdateLogin(q)

\* requests interleave at every store call (the /auth/nonce requests that
\* end in an error touch no table and are left to AuthSeqSpec)
AuthNext ==
  \/ AuthEnv
  \/ \E a \in WireAddrs : NonceRoute(a)
  \/ \E in \in VerifyInputs : StartVerify(in)
  \/ AuthSteps

AuthSpec == Init /\ [][AuthNext]_vars

\* one request at a time: a request starts when no other is in flight
NoneInFlight == \A q \in Reqs : q.pc = "done"

AuthSeqNext ==
  \/ AuthEnv
  \/ NoneInFlight /\ NonceRouteErrors
  \/ \E a \in WireAddrs : NoneInFlight /\ NonceRoute(a)
  \/ \E in \in VerifyInputs : NoneInFlight /\ StartVerify(in)
  \/ AuthSteps

AuthSeqSpec == Init /\ [][AuthSeqNext]_vars

\* the courses router: requests interleave at every Redis and store call
CacheNext ==
  \/ Tick
  \/ \E in \in GetInputs : GetArrive(in)
  \/ \E q \in GetsInFlight, f \in BOOLEAN : GetHandler(q, f)
  \/ \E q \in GetsInFlight : GetJson(q)
  \/ \E in \in WriteInputs : WriteArrive(in)
  \/ \E w \in wreq : WriteKeys(w)
  \/ \E w \in wreq : WriteDel(w)
  \/ \E w \in wreq, f \in BOOLEAN : WriteHandler(w, f)

CacheSpec == Init /\ [][CacheNext]_vars

\* the Redis client is missing, or its commands may reject
FaultInit ==
  /\ AuthInit /\ CacheInit /\ redisMode \in {"absent", "faulty"}
  /\ RateInit /\ KvInit /\ KeyInit /\ AppInit

\* requests through the rate limiter interleave at every Redis command
RateNext ==
  \/ RateTick
  \/ \E in \in RateInputs : RateArrive(in)
  \/ \E r \in BagToSet(rreq) : RateExpire(r)
  \/ \E r \in BagToSet(rreq) : RateTtl(r)

RateSpec == Init /\ [][RateNext]_vars

RateFaultSpec == FaultInit /\ [][RateNext]_vars

\* two GET requests to the list route are to be compared
KeyDrawInit ==
  /\ AuthInit /\ CacheInit /\ redisMode = "ok" /\ RateInit /\ KvInit
  /\ AppInit
  /\ kreq \in {<<[method |-> M_GET, url |-> Mount, query |-> q1,
                    user |-> NoUser],
                   [method |-> M_GET, url |-> Mount, query |-> q2,
                    user |-> NoUser]>> : q1, q2 \in KeyQueries}
  /\ kkeys = <<>>

\* the key generator applied to every pair of requests
KeyNext == KeyDerive

KeySpec == KeyDrawInit /\ [][KeyNext]_vars

\* CacheService methods called one after the other
KvNext ==
  \/ Tick
  \/ \E in \in KvSetInputs : KvSet(in.key, in.value, in.ttlSeconds)
  \/ \E key \in KvKeys : KvGet(key)
  \/ \E key \in KvKeys : KvDel(key)
  \/ \E pattern \in KvPatterns : KvDelPattern(pattern)
  \/ \E key \in KvKeys : KvGetOrSet(key, JsNumber(<<"0">>), 300)

KvSpec == Init /\ [][KvNext]_vars

\* the list route (without a query, and with one whose key the invalidation
\* pattern matches) and one write route
CacheListNext ==
  \/ Tick
  \/ \E in \in {g \in GetInputs : g.route = "list" /\ Len(g.query) = 1} :
       GetArrive(in)
  \/ \E q \in GetsInFlight, f \in BOOLEAN : GetHandler(q, f)
  \/ \E q \in GetsInFlight : GetJson(q)
  \/ \E in \in {w \in WriteInputs : w.route = "create" /\ w.user # NoUser} :
       WriteArrive(in)
  \/ \E w \in wreq : WriteKeys(w)
  \/ \E w \in wreq : WriteDel(w)
  \/ \E w \in wreq, f \in BOOLEAN : WriteHandler(w, f)

CacheFaultSpec == FaultInit /\ [][CacheListNext]_vars

\* the same requests with a healthy store
CacheListSpec == Init /\ [][CacheListNext]_vars

\* the users table holds some of the accounts that were created; requests
\* carrying a bearer token arrive one at a time, and accounts are removed
MeDrawInit ==
  /\ now = 0 /\ nonces = {} /\ nonceSeq = 0 /\ nonceResp = NoNonceResp
  /\ vreq = EmptyBag
  /\ users \in SUBSET MeUsers
  /\ userSeq = Cardinality(MeUsers)
  /\ CacheInit /\ redisMode = "ok" /\ RateInit /\ KvInit /\ KeyInit
  /\ AppInit

MeNext ==
  \/ \E in \in MeInputs : MeVerify(in)
  \/ \E f \in BOOLEAN : MeFetchUser(f)
  \/ \E u \in MeUsers : UserRemoved(u)

MeSpec == MeDrawInit /\ [][MeNext]_vars

\* the owner's publish and lesson requests interleave at every store call
CourseSpec == Init /\ [][CourseNext]_vars

\* runs of the migration runner, one after the other
MigSpec == Init /\ [][MigNext]_vars

\* ------------------------------------------------- properties: /auth/verify

Done(q) == q.pc = "done"
HasToken(q) == Done(q) /\ q.resp.token # Null
Accepted(q) == q.nonceData # Null
ValidSiwe(q) == q.msg # Null /\ SiweVerify(q.msg, q.signer)

\* the one response every failure inside the try block ends as
AuthFailed ==
  [status |-> 401, message |-> "Authentication failed", token |-> Null]

\* at the time of the select the store held an unexpired row for the
\* lower-cased address and the nonce of the request's message
LiveRowAtLookup(q) == q.seen = "live"

\* at most one request of S, counted with multiplicity
AtMostOne(S) == Cardinality(S) <= 1 /\ \A q \in S : CopiesIn(q, vreq) = 1

\* C1: a token is returned only if the SIWE signature verified and, when the
\* request looked, the nonce store held an unexpired row matching the
\* recovered lower-case address and the message's nonce.
C1_TokenOnlyWithLiveNonce ==
  \A q \in Reqs : HasToken(q) => ValidSiwe(q) /\ LiveRowAtLookup(q)

\* a token was issued, and a correctly signed request was refused for its nonce
C1_Witness ==
  \E q1 \in Reqs, q2 \in Reqs :
    /\ HasToken(q1)
    /\ Done(q2) /\ ValidSiwe(q2) /\ ~Accepted(q2) /\ q2.resp.token = Null

\* C2: requests carrying the same signed message never both succeed: at most
\* one token is issued per nonce row.
C2_AtMostOneTokenPerNonce ==
  \A id \in 1..nonceSeq :
    AtMostOne({q \in Reqs : HasToken(q) /\ q.nonceData.id = id})

C4_ExpiredNeverAccepted ==
  \A q \in Reqs :
    /\ Accepted(q) => q.inTime
    /\ Done(q) /\ ValidSiwe(q) /\ q.seen = "expired" => q.resp = AuthFailed

\* a correctly signed request found its row stored but expired and was refused
C4_Witness ==
  \E q \in Reqs :
    /\ Done(q) /\ ValidSiwe(q) /\ q.seen = "expired" /\ q.resp = AuthFailed
    /\ Candidates(nonces, q.msg) # {}

\* C5: the request that loses the user-creation race (its insert is rejected
\* by the unique constraint) still ends with a token.
C5_RaceLoserGetsToken ==
  \A q \in Reqs : Done(q) /\ q.insert = "unique" => HasToken(q)

\* C6: the users table holds at most one row per wallet address, and every
\* token issued for an address carries the id of that row.
C6_OneUserPerAddress ==
  /\ \A u1 \in users, u2 \in users :
       u1.wallet_address = u2.wallet_address => u1 = u2
  /\ \A q \in Reqs :
       HasToken(q) => \E u \in users : /\ u.wallet_address = q.address
                                       /\ u.id = q.resp.token.id
                                       /\ u.wallet_address = q.resp.token.address

\* two first-time requests for one address raced: one created the row, the
\* insert of the other was rejected by the unique constraint
C6_Witness ==
  \E q1 \in Reqs, q2 \in Reqs :
    /\ q1.insert = "ok" /\ q2.insert = "unique" /\ q1.address = q2.address

\* C7: persistence failures on required paths are answered 5xx: a failed
\* insert of the nonce with 500, a failed insert of the user with 5xx.
C7_PersistenceFailuresAre5xx ==
  /\ nonceResp.insertError => nonceResp.status = 500
  /\ \A q \in Reqs : Done(q) /\ q.insert = "fault" => q.resp.status >= 500

\* the failures of the protocol: the message does not parse, the signature
\* does not verify, the nonce is unknown, expired or already consumed
ProtocolFailure(e) ==
  \/ e.kind = "SiweError"
  \/ e.kind = "AppError" /\ e.message \in {"Invalid signature",
                                           "Invalid or expired nonce"}

\* C8: every protocol failure of /auth/verify is answered with the same
\* response, 401 'Authentication failed', whichever check failed.
C8_UniformFailure ==
  \A q \in Reqs :
    Done(q) /\ q.thrown # Null /\ ProtocolFailure(q.thrown) => q.resp = AuthFailed

\* requests failed at two different checks and were answered alike
C8_Witness ==
  \E q1 \in Reqs, q2 \in Reqs :
    /\ Done(q1) /\ q1.thrown # Null /\ q1.thrown.message = "Invalid signature"
    /\ Done(q2) /\ q2.thrown # Null
    /\ q2.thrown.message = "Invalid or expired nonce"
    /\ q1.resp = q2.resp

\* C9: when a write to the courses router has completed successfully, no
\* cache entry that was stored before the write arrived is left in Redis.
C9_NoPreWriteEntryRemains ==
  \A w \in wreq :
    (w.pc = "done" /\ w.mutated) =>
      \A k \in DOMAIN redis : redis[k].after >= w.ord

\* C10: a write route invalidates the cache only after its handler has
\* succeeded: never before the handler ran and never when it failed.
C10_InvalidationAfterSuccess ==
  \A w \in wreq : w.invalidated => w.mutated

\* C11: on a miss the response cache stores an entry only for a successful
\* response: no entry in Redis holds the status of an error response.
C11_OnlySuccessStored ==
  \A k \in DOMAIN redis : redis[k].value.status < 400

\* the requests of one counter: same key, same window
InWindow(key, window) ==
  {r \in BagToSet(rreq) : r.key = key /\ r.window = window /\ r.raw > 0}
Windows == {<<r.key, r.window>> : r \in {x \in BagToSet(rreq) : x.raw > 0}}
CountIn(S) == BagCardinality([r \in S |-> rreq[r]])

\* C12: with a healthy store, for every rate-limit key and window at most
\* `max` requests are passed to the downstream handler, and a request whose
\* count after the increment exceeds `max` is never passed on: it is answered
\* with 429.
C12_AtMostMaxAdmitted ==
  /\ \A w \in Windows :
       CountIn({r \in InWindow(w[1], w[2]) : r.outcome = "next"}) <= RateMax
  /\ \A r \in BagToSet(rreq) :
       r.raw > RateMax =>
         /\ r.outcome # "next"
         /\ r.pc = "done" => r.outcome = "429"

C12_Witness ==
  \E w \in Windows :
    /\ CountIn({r \in InWindow(w[1], w[2]) : r.outcome = "next"}) = RateMax
    /\ \E r \in InWindow(w[1], w[2]) : r.raw > RateMax /\ r.outcome = "429"

\* C13: the increment issues the TTL-setting call exactly when the count it
\* got is 1: the counts handed to the requests of one counter are 1..N
\* without repetition, and only the request that got 1 sets the expiry.
C13_OneTtlSetterPerWindow ==
  /\ \A w \in Windows :
       LET S == InWindow(w[1], w[2])
       IN  /\ CountIn(S) = Cardinality(S)
           /\ {r.raw : r \in S} = 1 .. Cardinality(S)
           /\ \A x, y \in S : x.raw = y.raw => x = y
           /\ CountIn({r \in S : r.expired \/ r.pc = "expire"}) = 1
  /\ \A r \in BagToSet(rreq) :
       /\ r.expired => r.raw = 1
       /\ r.pc = "expire" => r.raw = 1
       /\ r.raw = 1 => r.expired \/ r.pc = "expire"

C13_Witness ==
  \E w \in Windows :
    LET S == InWindow(w[1], w[2])
    IN  /\ Cardinality(S) = MaxHits
        /\ \A r \in S : r.pc = "done"
        /\ \E r \in S : r.expired

\* C14: the expiry of a counter is fixed by the first request of its window:
\* once set it is never changed while the counter lives, a counter leaves the
\* store only when its expiry has passed, none outlives its expiry, and a
\* request that finds no counter starts a new window with count 1 and is
\* admitted.
C14_FixedWindow ==
  [][/\ \A k \in DOMAIN redis \cap DOMAIN redis' :
          /\ redis'[k].created_at = redis[k].created_at
          /\ redis[k].expires_at # NoExpiry =>
               redis'[k].expires_at = redis[k].expires_at
     /\ \A k \in DOMAIN redis \ DOMAIN redis' :
          redis[k].expires_at # NoExpiry /\ redis[k].expires_at <= now'
     /\ \A k \in DOMAIN redis' :
          redis'[k].expires_at = NoExpiry \/ redis'[k].expires_at > now'
     /\ \A r \in BagToSet(rreq') :
          /\ (r \notin BagToSet(rreq) /\ r.pc = "expire") =>
               r.key \notin DOMAIN redis /\ r.window = now
          /\ (r \notin BagToSet(rreq) /\ r.key \notin DOMAIN redis
                /\ BagCardinality(rreq') > BagCardinality(rreq)) =>
               r.raw = 1 /\ r.window = now
          /\ (r.raw = 1 /\ r.pc = "done") => r.outcome = "next"]_vars

C14_Witness ==
  \E a, b, c \in BagToSet(rreq) :
    /\ a.key = b.key /\ b.key = c.key
    /\ a.window = 0 /\ a.raw = 1 /\ a.expired
    /\ b.window = 0 /\ b.raw = 2
    /\ c.window > 0 /\ c.raw = 1 /\ c.outcome = "next"
    /\ c.key \in DOMAIN redis /\ redis[c.key].value = 1

\* C15: the limiter fails open on the increment: a request during which the
\* store was absent or the increment raised an error is passed to the
\* downstream handler and never answered 429; a request over the limit whose
\* TTL lookup failed is still answered 429, with the configured window as
\* Retry-After.
C15_FailsOpenOnIncrement ==
  \A r \in BagToSet(rreq) :
    /\ r.fault \in {"absent", "incr", "expire"} =>
         r.pc = "done" /\ r.outcome = "next"
    /\ r.fault = "ttl" =>
         /\ r.outcome = "429"
         /\ r.retryAfter = RateOptions.windowSeconds

C15_Witness ==
  \E r \in BagToSet(rreq) :
    /\ r.fault = "incr" /\ r.outcome = "next"
    /\ r.key \in DOMAIN redis /\ redis[r.key].value >= RateMax

\* C15 as stated: a request during which any store call failed, the TTL
\* lookup included, is passed on and never answered 429.
C15_FailsOpenOnAnyStoreError ==
  \A r \in BagToSet(rreq) :
    r.fault # "none" => r.outcome # "429"

\* what the handler of a GET route can answer
HandlerAnswers(route) ==
  {[status |-> 200,
    body |-> [rev |-> n, hasFullAccess |-> HasFullAccess(route, gresp.user)]] :
     n \in 0 .. courseDb}
    \cup {ErrorResp(GetRoute(route).error)}

\* C16: a store that is absent or failing never fails a request: a GET whose
\* cache lookup found no client or rejected still reaches its handler and is
\* answered with the handler's status and body and X-Cache: MISS; a write
\* whose invalidation failed still reaches its handler; without a client
\* nothing is ever stored.
C16_StoreDownNeverFailsRequest ==
  /\ \A q \in BagToSet(greq) : q.down => q.wrapped
  /\ gresp.down =>
       /\ gresp.xcache = "MISS"
       /\ \E r \in {g.route : g \in GetInputs} :
            [status |-> gresp.status, body |-> gresp.body] \in HandlerAnswers(r)
  /\ \A w \in wreq :
       w.down => /\ w.pc \in {"handler", "done"}
                 /\ w.pc = "done" =>
                      \/ w.resp.status = WriteRoute(w.route).ok
                      \/ w.resp = ErrorResp(WriteRoute(w.route).error)
  /\ redisMode = "absent" => redis = <<>>

C16_Witness ==
  /\ gresp.down /\ gresp.status = 200 /\ gresp.xcache = "MISS"
  /\ \E w \in wreq : w.down /\ w.pc = "done" /\ w.mutated

\* C17: after a set of value V under key X with T seconds to live, a get of X
\* before T has elapsed and before a del, delPattern or later set of X returns
\* exactly V (after a later set, that set's value), and a get after T has
\* elapsed, or after a delete, returns null.
C17_GetReturnsStored ==
  ret.op = "get" => ret.value = IF ret.live THEN ret.expect ELSE JsNull

C17_Witness ==
  /\ ret.op = "get" /\ ret.live /\ ret.value = JsObject(<<"x">>) /\ now > 0
  /\ \E k \in DOMAIN written : k # ret.key /\ ~Live(k)

\* C18: a stored null or empty value is not taken for a miss: a get of a key
\* with a live entry does not answer null (the answer for a missing key), and
\* getOrSet on a key with a live entry does not call fetchFn.
C18_NullIsNotAMiss ==
  /\ (ret.op = "get" /\ ret.live) => ret.value # JsNull
  /\ (ret.op = "getOrSet" /\ ret.live) => ~ret.fetched

\* C20: delPattern(P) removes every live key that matches P and no other key,
\* whatever the order in which the keys were stored; when no key matches the
\* keyspace is unchanged.
C20_DelPatternExact ==
  [][ret'.op = "delPattern" /\ calls' = calls + 1 =>
       redis' = [k \in {x \in DOMAIN redis : <<ret'.key, x>> \notin PatternTable}
                   |-> redis[k]]]_vars

C20_Witness ==
  /\ ret.op = "delPattern" /\ ret.key = P_q /\ ret.deleted = 2
  /\ DOMAIN redis = {K_a2}

\* C19: the default cache key does not depend on the order of the query
\* parameters and is injective in their values: two requests to one path
\* derive the same key exactly when they carry the same parameters with the
\* same values, strings containing & or =, arrays and nested objects included.
C19_KeyInjective ==
  kkeys # <<>> =>
    (kkeys[1] = kkeys[2] <=>
       {kreq[1].query[i] : i \in 1..Len(kreq[1].query)} =
         {kreq[2].query[i] : i \in 1..Len(kreq[2].query)})

\* C21: on a cache hit the middleware answers with the stored status and body
\* and X-Cache: HIT and the request does not reach the handler; a request
\* reaches the handler only when no entry is stored under its key.
C21_HitShortCircuits ==
  [][gseq' = gseq + 1 =>
       /\ (greq' = greq /\ gresp'.xcache = "HIT") =>
            /\ gresp'.key \in DOMAIN redis
            /\ gresp'.status = redis[gresp'.key].value.status
            /\ gresp'.body = redis[gresp'.key].value.body
       /\ \A q \in BagToSet(greq') :
            (q \notin BagToSet(greq) \/ greq'[q] > greq[q]) =>
               q.key \notin DOMAIN redis]_vars

C21_Witness ==
  /\ gresp.xcache = "HIT" /\ gresp.status = 200
  /\ greq = EmptyBag
  /\ gresp.key \in DOMAIN redis

\* C27: the hasFullAccess value that GET /:courseId delivers to a requester
\* is the one computed for that requester, whether or not the response comes
\* from the cache.
C27_OwnAccessOnly ==
  (gresp.route = "course" /\ gresp.status = 200) =>
     gresp.body.hasFullAccess = HasFullAccess("course", gresp.user)


\* ------------------------------------------ properties: nonces, once more

\* C28: a verify that fails leaves the nonce store as it was: the nonce row
\* a refused request had found is still stored (as long as the sweep of
\* expired rows cannot have removed it).
C28_FailedVerifyKeepsNonce ==
  \A q \in Reqs :
    (Done(q) /\ ~HasToken(q) /\ Accepted(q) /\ ~(q.nonceData.expires_at < now))
       => q.nonceData \in nonces

\* C24: issuing a nonce removes no row; a row leaves the store only by the
\* sweep of expired rows or by the delete of the verify that had found that
\* very row: the other outstanding nonces of the address stay stored, and a
\* verify that presents one of them while it is unexpired finds it.
C24_NoncesIndependent ==
  [][/\ nonceSeq' # nonceSeq => nonces \subseteq nonces'
     /\ \A n \in nonces \ nonces' :
          \/ n.expires_at < now
          \/ \E q \in Reqs : q.pc = "deleteNonce" /\ q.nonceData = n
     /\ \A q \in BagToSet(vreq') :
          (CopiesIn(q, vreq') > CopiesIn(q, vreq) /\ q.seen = "live")
             => Accepted(q)]_vars

\* two nonces of one address are outstanding; a verify has consumed the
\* earlier one (and was answered with a token) and the later one is stored
C24_Witness ==
  \E q \in Reqs, n \in nonces :
    /\ HasToken(q) /\ q.nonceData.id = 1
    /\ n.id = 2 /\ n.address = q.nonceData.address
    /\ n.created_at <= q.nonceData.created_at
    /\ q.nonceData \notin nonces

\* ------------------------------------- properties: rate limiter, once more

\* C25: the Retry-After of a 429 is the live TTL of the counter when the
\* lookup gave a positive one, and the configured window otherwise (the
\* lookup failed, the key is missing or it has no expiry); it lies between 1
\* and the window.
C25_RetryAfter ==
  [][\A r \in BagToSet(rreq') :
       (CopiesIn(r, rreq') > CopiesIn(r, rreq) /\ r.outcome = "429") =>
          /\ r.retryAfter \in 1..RateOptions.windowSeconds
          /\ IF /\ r.fault # "ttl"
                /\ r.key \in DOMAIN redis
                /\ redis[r.key].expires_at # NoExpiry
                /\ redis[r.key].expires_at - now >= 1000
             THEN r.retryAfter * 1000 = redis[r.key].expires_at - now
             ELSE r.retryAfter = RateOptions.windowSeconds]_vars

\* a request was answered 429 when part of the window had gone by: its
\* Retry-After is the time left, less than the window
C25_Witness ==
  \E r \in BagToSet(rreq) :
    /\ r.outcome = "429" /\ r.fault = "none"
    /\ r.retryAfter > 0 /\ r.retryAfter < RateOptions.windowSeconds

\* C26: every counter key of the limiter carries an expiry, also when the
\* EXPIRE fails (stated for the keys no request is still about to issue the
\* EXPIRE for: between INCR and EXPIRE the key has none in any case).
C26_CounterAlwaysExpires ==
  \A key \in DOMAIN redis :
    (\A r \in BagToSet(rreq) : r.key = key => r.pc # "expire")
       => redis[key].expires_at # NoExpiry

\* ------------------------------------------- properties: bearer tokens

\* C22: a request whose token is correctly signed and unexpired but whose
\* user id has no row is answered 'User not found', on GET /auth/me with
\* status 404; the user of an accepted request is built from the row the
\* select returned.
C22_UserNotFoundDistinct ==
  /\ (mreq.pc = "done" /\ mreq.token.kind = "valid" /\ mreq.found = "no") =>
        /\ mreq.resp.message = "User not found"
        /\ mreq.route = "me" => mreq.resp.status = 404
  /\ (mreq.pc = "done" /\ mreq.resp.status = 200) =>
        mreq.resp.user = AttachedUser(mreq.row)

\* ------------------------------------------- properties: course publishing

\* C23: a publish request with publish = true that finds the course without
\* lessons is answered 400 and does not touch is_published; the flag turns
\* true only by the update of a publish request that had counted at least
\* one lesson.
C23_PublishNeedsLesson ==
  [][/\ \A q \in creq' \ creq :
          (q.op = "publish" /\ q.publish /\ q.seen = 0) =>
             /\ q.pc = "done" /\ q.status = 400
             /\ q.message = "Cannot publish course without lessons"
             /\ is_published' = is_published
     /\ (is_published' /\ ~is_published) =>
          \E q \in creq \ creq' :
            /\ q.op = "publish" /\ q.pc = "update"
            /\ q.publish /\ q.seen >= 1]_vars

\* a publish was refused for want of lessons; after a lesson was created a
\* publish was accepted and the course is published
C23_Witness ==
  \E q1 \in creq, q2 \in creq :
    /\ q1.op = "publish" /\ q1.status = 400 /\ q1.seen = 0
    /\ q2.op = "publish" /\ q2.status = 200 /\ q2.publish /\ q2.seen >= 1
    /\ is_published

\* C29: a published course has at least one lesson, whatever the order of
\* lesson creations, lesson deletions, publish and unpublish requests.
C29_PublishedHasLesson == is_published => lessons # {}

\* ------------------------------------------- properties: migration runner

\* C30: a name is recorded in _migrations only if every statement of its
\* file had executed successfully in the run that recorded it.
C30_RecordedOnlyIfAllSucceeded == migrations \cap mbroken = {}
====
